---------------------------- MODULE Spec2Model ----------------------------
(***************************************************************************)
(* Resumable chunked upload server: src/uploadManager.js (BitSet and       *)
(* UploadManager) driven by the HTTP handlers of src/server.js.            *)
(*                                                                         *)
(* The process is a single JavaScript event loop.  Every action below is   *)
(* one run-to-completion slice of a handler: the code from where a request *)
(* or an I/O callback enters up to the next await.  File-system calls are  *)
(* split into the slice that issues them and the step where their effect   *)
(* reaches the disk, so everything the event loop can interleave between   *)
(* the two is in the model.  An fs.writeFile / fs.unlink is taken to act   *)
(* on the directory atomically at one instant between issue and callback.  *)
(***************************************************************************)
EXTENDS Integers, Sequences, FiniteSets, TLC

(***************************************************************************)
(* Bounds of the model.                                                    *)
(***************************************************************************)
MaxUploads == 2      \* createUpload calls made over a run (ids 1..MaxUploads)
MaxWriters == 2      \* writeChunkAt calls in flight at once
MaxFlushers == 2     \* timer-triggered _flushDirty invocations in flight at once
MaxAborts == 1       \* abortUpload calls in flight at once
MaxCalls == 3        \* state-changing requests and signals the process receives over a run
DiskCapacity == 150  \* bytes of destination files the runs allocate at once
MaxBitLength == 4    \* longest BitSet of the specification of the BitSet class alone

(***************************************************************************)
(* Inputs.  A request names an id the server has issued or NoSuchId; an    *)
(* upload is created with one of Configs; a PUT carries one of Ranges      *)
(* (offset, length), some of them outside every configured totalSize.      *)
(***************************************************************************)
NoSuchId == MaxUploads + 1   \* an id uuidv4 never produced
Configs == { [totalSize |-> 150, chunkSize |-> 64],
             [totalSize |-> 64,  chunkSize |-> 64] }
Ranges == { <<0, 64>>, <<100, 50>>, <<128, 22>>, <<128, 64>> }

Null == [null |-> TRUE]

Max(a, b) == IF a >= b THEN a ELSE b
Ceil(a, b) == (a + b - 1) \div b
Range(s) == { s[k] : k \in DOMAIN s }
Pow2(k) == 2 ^ k
RemoveAt(s, k) == [j \in 1..(Len(s) - 1) |-> IF j < k THEN s[j] ELSE s[j + 1]]

(***************************************************************************)
(* BitSet (uploadManager.js 17-40): a Uint8Array of ceil(length/8) bytes.  *)
(* A typed array ignores a store outside its bounds and reads undefined    *)
(* there, and  undefined & mask  is 0.  Sequences are 1-based, so byte b   *)
(* of the array is bytes[b + 1].                                           *)
(***************************************************************************)
NewBitSet(length) ==
  [length |-> length, bytes |-> [k \in 1..Ceil(length, 8) |-> 0]]

\* (i / 8) | 0 truncates towards zero.
ByteIndex(i) == IF i >= 0 THEN i \div 8 ELSE -((-i) \div 8)
\* 1 << (i % 8): i % 8 has the sign of i and the shift count is taken modulo
\* 32.  Kept are the low eight bits of the mask, the ones that meet a byte of
\* the Uint8Array: a shift by 8 or more leaves none of them.
BitMask(i) ==
  LET n == IF i >= 0 THEN i % 8 ELSE (32 - ((-i) % 8)) % 32
  IN  IF n < 8 THEN Pow2(n) ELSE 0
BitAnd1(byte, mask) == IF mask # 0 /\ (byte \div mask) % 2 = 1 THEN mask ELSE 0
BitOr1(byte, mask) == IF mask = 0 \/ (byte \div mask) % 2 = 1 THEN byte ELSE byte + mask

BitSetSet(b, i) ==
  IF ByteIndex(i) + 1 \in DOMAIN b.bytes
  THEN [b EXCEPT !.bytes[ByteIndex(i) + 1] = BitOr1(@, BitMask(i))]
  ELSE b

BitSetHas(b, i) ==
  IF ByteIndex(i) + 1 \in DOMAIN b.bytes
  THEN BitAnd1(b.bytes[ByteIndex(i) + 1], BitMask(i)) # 0
  ELSE FALSE

RECURSIVE ToArrayFrom(_, _)
ToArrayFrom(b, i) ==
  IF i >= b.length THEN <<>>
  ELSE (IF BitSetHas(b, i) THEN <<i>> ELSE <<>>) \o ToArrayFrom(b, i + 1)

ToArray(b) == ToArrayFrom(b, 0)

RECURSIVE FromArrayInto(_, _)
FromArrayInto(b, arr) ==
  IF arr = <<>> THEN b
  ELSE FromArrayInto(BitSetSet(b, Head(arr)), Tail(arr))

FromArray(arr, length) == FromArrayInto(NewBitSet(length), arr)

(***************************************************************************)
(* Chunk arithmetic.                                                       *)
(***************************************************************************)
\* createUpload line 102 and getUpload line 154: Math.max(1, Math.ceil(..)).
BitsetLength(totalSize, chunkSize) == Max(1, Ceil(totalSize, chunkSize))
\* getMissingChunks line 280 and the status handler line 124: no Math.max.
TotalChunks(up) == Ceil(up.totalSize, up.chunkSize)
\* Mutant of line 189: Math.round in the place of Math.floor.
ChunkIndexRounded(offset, chunkSize) == (2 * offset + chunkSize) \div (2 * chunkSize)

\* writeChunkAt line 189.
ChunkIndex(offset, chunkSize) == offset \div chunkSize

VARIABLES
  uploads,        \* this.uploads: id -> descriptor (a function on the cached ids)
  locks,          \* this.locks: id -> set of chunk indices being written
  dirty,          \* this.dirty: a JS Set, kept in insertion order
  debounceTimer,  \* the number of debounce timers of the manager that are armed
  metaStore,      \* <baseDir>/<id>.json on disk: id -> parsed snapshot
  files,          \* destination files on disk: id -> [size, data]
  nextId,         \* number of ids uuidv4 has produced
  issued,         \* ids the initiate handler has returned to a client
  creators,       \* createUpload calls past their snapshot write
  writers,        \* writeChunkAt calls whose stream is piping, in order of arrival
  flushers,       \* _flushDirty invocations awaiting a writeFile, in order of start
  aborts,         \* abortUpload calls awaiting an unlink
  shutdown,       \* shutdown() is awaiting flushAllMetadata: what was in memory at the call
  snapFailed,     \* a snapshot writeFile of this process has failed (81-84)
  calls,          \* requests and signals received so far
  resp            \* what the step just taken answered (NoResp: nothing, or a status)

vars == << uploads, locks, dirty, debounceTimer, metaStore, files, nextId, issued,
           creators, writers, flushers, aborts, shutdown, snapFailed, calls, resp >>

memory == << uploads, locks, dirty, debounceTimer >>
disk == << metaStore, files >>
inflight == << creators, writers, flushers, aborts, shutdown, snapFailed >>

Cached(id) == id \in DOMAIN uploads
HasMeta(id) == id \in DOMAIN metaStore
HasFile(id) == id \in DOMAIN files

(***************************************************************************)
(* Responses (server.js sendJSON).  completed is the "completed" property  *)
(* of the JSON body as a set: empty when the body has no such property,    *)
(* else the one value it carries.                                          *)
(***************************************************************************)
NoResp ==
  [op |-> "none", id |-> NoSuchId, code |-> 0, error |-> "", offset |-> 0,
   length |-> 0, already |-> FALSE, written |-> 0, totalSize |-> 0, chunkSize |-> 0,
   totalChunks |-> 0, chunks |-> <<>>, count |-> 0, completed |-> {}]

Reply(op, id, code, error) ==
  [NoResp EXCEPT !.op = op, !.id = id, !.code = code, !.error = error]

\* The answer to a PUT: op "put" when the handler answers before writeChunkAt
\* awaits (code 0: no answer yet, the write is in flight), op "putDone" when the
\* awaited write settles.
PutReply(op, id, offset, length, code, error) ==
  [Reply(op, id, code, error) EXCEPT !.offset = offset, !.length = length]

(***************************************************************************)
(* The snapshot: the meta object of _flushDirty (69-78) and createUpload   *)
(* (117-126) after JSON.stringify / JSON.parse, and the descriptor that    *)
(* getUpload rebuilds from it (153-164).  filename, createdAt and filePath *)
(* are functions of the id and are left out.                               *)
(***************************************************************************)
MetaOf(up) ==
  [totalSize |-> up.totalSize, chunkSize |-> up.chunkSize,
   receivedChunks |-> ToArray(up.receivedBitset), completed |-> up.completed]

InitialMeta(cfg) ==
  [totalSize |-> cfg.totalSize, chunkSize |-> cfg.chunkSize,
   receivedChunks |-> <<>>, completed |-> FALSE]

NewUpload(cfg) ==
  [totalSize |-> cfg.totalSize, chunkSize |-> cfg.chunkSize, completed |-> FALSE,
   receivedBitset |-> NewBitSet(BitsetLength(cfg.totalSize, cfg.chunkSize))]

LoadMeta(data) ==
  [totalSize |-> data.totalSize, chunkSize |-> data.chunkSize,
   completed |-> data.completed,
   receivedBitset |-> FromArray(data.receivedChunks,
                                BitsetLength(data.totalSize, data.chunkSize))]

(***************************************************************************)
(* getUpload (147-172): the cached descriptor, else the one rebuilt from   *)
(* the snapshot, which is cached together with a fresh lock set.           *)
(***************************************************************************)
GetUpload(id) ==
  IF Cached(id) THEN uploads[id]
  ELSE IF HasMeta(id) THEN LoadMeta(metaStore[id])
  ELSE Null

UploadsAfterGet(id) ==
  IF ~Cached(id) /\ HasMeta(id) THEN (id :> LoadMeta(metaStore[id])) @@ uploads
  ELSE uploads

LocksAfterGet(id) ==
  IF ~Cached(id) /\ HasMeta(id) /\ id \notin DOMAIN locks THEN (id :> {}) @@ locks
  ELSE locks

\* getReceivedChunksArray (174-178)
GetReceivedChunksArray(id) ==
  IF GetUpload(id) = Null THEN <<>> ELSE ToArray(GetUpload(id).receivedBitset)

\* getMissingChunks (277-284)
RECURSIVE MissingFrom(_, _)
MissingFrom(up, i) ==
  IF i >= TotalChunks(up) THEN <<>>
  ELSE (IF ~BitSetHas(up.receivedBitset, i) THEN <<i>> ELSE <<>>)
       \o MissingFrom(up, i + 1)

\* Mutant of the loop: nothing is ever reported missing.
MissingOfNone(up) == << >>

\* The loop of lines 280-283 on a descriptor.
MissingOf(up) == MissingFrom(up, 0)

GetMissingChunks(id) ==
  IF GetUpload(id) = Null THEN <<>> ELSE MissingOf(GetUpload(id))

\* _scheduleFlush (55-59): dirty.add(id), and arm the timer unless one is armed.
\* Mutant of line 57: a timer is armed whether or not one is pending.
ArmTimerAgain(n) == n + 1

\* _scheduleFlush lines 57-58: a timer is armed unless this._debounceTimer
\* holds one.
ArmTimer(n) == IF n > 0 THEN n ELSE 1

DirtyAdd(d, id) == IF id \in Range(d) THEN d ELSE Append(d, id)
DirtyDelete(d, id) == SelectSeq(d, LAMBDA x : x # id)

Init ==
  /\ uploads = << >>
  /\ locks = << >>
  /\ dirty = << >>
  /\ debounceTimer = 0
  /\ metaStore = << >>
  /\ files = << >>
  /\ nextId = 0
  /\ issued = {}
  /\ creators = {}
  /\ writers = << >>
  /\ flushers = << >>
  /\ aborts = {}
  /\ shutdown = Null
  /\ snapFailed = FALSE
  /\ calls = 0
  /\ resp = NoResp

\* Bytes of the destination files on disk and of those being created.
RECURSIVE SumSizes(_)
SumSizes(S) ==
  IF S = {} THEN 0
  ELSE LET x == CHOOSE y \in S : TRUE IN x[2] + SumSizes(S \ {x})

Allocated ==
  SumSizes({ <<i, files[i].size>> : i \in DOMAIN files }
           \cup { <<c.id, c.cfg.totalSize>> : c \in creators })

(***************************************************************************)
(* POST /upload/initiate (server.js 86-114) and createUpload (96-145).     *)
(***************************************************************************)
\* The answers of the handler's catch (server.js 101-109): 507 for ENOSPC,
\* 500 for any other error of createUpload.
InitiateFailed ==
  { Reply("initiate", NoSuchId, 507, "disk_full"),
    Reply("initiate", NoSuchId, 500, "initiate_failed") }

\* Mutant of createUpload: the initial snapshot is left to the debounced flush.
CreateSnapshotDebounced(cfg, ok) ==
  /\ nextId < MaxUploads
  /\ Allocated + cfg.totalSize <= DiskCapacity
  /\ nextId' = (IF ok THEN nextId + 1 ELSE nextId)
  /\ IF ok
     THEN /\ creators' = creators \cup { [id |-> nextId + 1, cfg |-> cfg] }
          /\ resp' = NoResp
     ELSE /\ UNCHANGED creators
          /\ resp' \in InitiateFailed
  /\ UNCHANGED << memory, disk, issued, writers, flushers, aborts, shutdown, snapFailed >>

\* The handler runs createUpload up to its first await; the snapshot write
\* (line 127) reaches the disk, or fails and the handler answers 500.
CreateSnapshot(cfg, ok) ==
  /\ nextId < MaxUploads
  /\ Allocated + cfg.totalSize <= DiskCapacity
  /\ nextId' = (IF ok THEN nextId + 1 ELSE nextId)
  /\ IF ok
     THEN /\ metaStore' = ((nextId + 1) :> InitialMeta(cfg)) @@ metaStore
          /\ creators' = creators \cup { [id |-> nextId + 1, cfg |-> cfg] }
          /\ resp' = NoResp
     ELSE /\ UNCHANGED << metaStore, creators >>
          /\ resp' \in InitiateFailed
  /\ UNCHANGED << memory, files, issued, writers, flushers, aborts, shutdown, snapFailed >>

\* Mutant of createUpload: the upload is registered before its file is
\* allocated, so a failed allocation leaves the entry behind.
CreateAllocateRegistersFirst(c, ok) ==
  /\ c \in creators
  /\ creators' = creators \ {c}
  /\ uploads' = (c.id :> NewUpload(c.cfg)) @@ uploads
  /\ locks' = (c.id :> {}) @@ locks
  /\ dirty' = DirtyAdd(dirty, c.id)
  /\ debounceTimer' = ArmTimer(debounceTimer)
  /\ IF ok
     THEN /\ files' = (c.id :> [size |-> c.cfg.totalSize, data |-> {}]) @@ files
          /\ issued' = issued \cup {c.id}
          /\ resp' = [Reply("initiate", c.id, 200, "") EXCEPT
                        !.chunkSize = c.cfg.chunkSize]
     ELSE /\ UNCHANGED << files, issued >>
          /\ resp' \in InitiateFailed
  /\ UNCHANGED << metaStore, nextId, writers, flushers, aborts, shutdown, snapFailed >>

\* open 'w' + close + truncate(total) (130-139), then lines 141-144 and the
\* handler's answer (99-100); or the allocation fails and nothing is registered.
CreateAllocate(c, ok) ==
  /\ c \in creators
  /\ creators' = creators \ {c}
  /\ IF ok
     THEN /\ files' = (c.id :> [size |-> c.cfg.totalSize, data |-> {}]) @@ files
          /\ uploads' = (c.id :> NewUpload(c.cfg)) @@ uploads
          /\ locks' = (c.id :> {}) @@ locks
          /\ dirty' = DirtyAdd(dirty, c.id)
          /\ debounceTimer' = ArmTimer(debounceTimer)
          /\ issued' = issued \cup {c.id}
          /\ resp' = [Reply("initiate", c.id, 200, "") EXCEPT
                        !.chunkSize = c.cfg.chunkSize]
     ELSE /\ UNCHANGED << files, memory, issued >>
          /\ resp' \in InitiateFailed
  /\ UNCHANGED << metaStore, nextId, writers, flushers, aborts, shutdown, snapFailed >>

(***************************************************************************)
(* GET /upload/:id/status (server.js 117-136).  The answer, StatusOf(id),  *)
(* is a function of the state the handler runs in; what the handler leaves *)
(* behind is the descriptor getUpload cached.                              *)
(***************************************************************************)
StatusOf(id) ==
  IF GetUpload(id) = Null THEN Reply("status", id, 404, "upload_not_found")
  ELSE LET up == GetUpload(id)
           received == GetReceivedChunksArray(id)
       IN  [Reply("status", id, 200, "") EXCEPT
              !.totalSize = up.totalSize, !.chunkSize = up.chunkSize,
              !.totalChunks = TotalChunks(up),
              !.chunks = received, !.count = Len(received)]

GetStatus(id) ==
  /\ id \in issued \cup {NoSuchId}
  /\ uploads' = UploadsAfterGet(id)
  /\ locks' = LocksAfterGet(id)
  /\ resp' = NoResp
  /\ UNCHANGED << dirty, debounceTimer, disk, nextId, issued, inflight >>

(***************************************************************************)
(* PUT /upload/:id (server.js 180-249) and writeChunkAt (185-275).         *)
(***************************************************************************)
\* The handler's range check, line 214.
InvalidRange(up, offset, length) ==
  offset < 0 \/ length <= 0 \/ offset + length > up.totalSize

\* Mutant of line 190: the bitmap is not consulted.
AlreadyReceivedNever(up, chunkIndex) == FALSE

\* writeChunkAt line 190: the chunk is already in the bitmap.
AlreadyReceived(up, chunkIndex) == BitSetHas(up.receivedBitset, chunkIndex)

\* Mutants of the gate of line 197: it never sees a write in progress; it
\* looks at the lock set as a whole, not at the chunk index.
LockHeldNever(lockSet, chunkIndex) == FALSE
LockHeldAny(lockSet, chunkIndex) == lockSet # {}

\* writeChunkAt line 197: lockSet.has(chunkIndex).
LockHeld(lockSet, chunkIndex) == chunkIndex \in lockSet

\* Mutant of lines 197-201: the rejection happens inside the try of line 254,
\* whose finally takes the index out of the lock set.
WriteChunkAtConflictReleases(id, offset, length) ==
  LET up == GetUpload(id)
      chunkIndex == ChunkIndex(offset, up.chunkSize)
      lks == LocksAfterGet(id)
  IN  /\ uploads' = UploadsAfterGet(id)
      /\ IF AlreadyReceived(up, chunkIndex)
         THEN /\ locks' = lks
              /\ writers' = writers
              /\ resp' = [PutReply("put", id, offset, length, 200, "") EXCEPT
                            !.already = TRUE, !.written = 0]
         ELSE IF LockHeld(lks[id], chunkIndex)
         THEN /\ locks' = [lks EXCEPT ![id] = @ \ {chunkIndex}]
              /\ writers' = writers
              /\ resp' = PutReply("put", id, offset, length, 409, "chunk_write_in_progress")
         ELSE /\ Len(writers) < MaxWriters
              /\ locks' = [lks EXCEPT ![id] = @ \cup {chunkIndex}]
              /\ writers' = Append(writers,
                     [id |-> id, offset |-> offset, length |-> length,
                      chunkIndex |-> chunkIndex, live |-> TRUE,
                      fileOk |-> HasFile(id), stalled |-> FALSE])
              /\ resp' = PutReply("put", id, offset, length, 0, "")

\* writeChunkAt from its entry to  readStream.pipe(ws)  (185-250).  The write
\* stream opens the destination with flags 'r+', which fails when the file is
\* not there: fileOk is what that open will find.
WriteChunkAt(id, offset, length) ==
  LET up == GetUpload(id)
      chunkIndex == ChunkIndex(offset, up.chunkSize)
      lks == LocksAfterGet(id)
  IN  /\ uploads' = UploadsAfterGet(id)
      /\ IF AlreadyReceived(up, chunkIndex)
         THEN /\ locks' = lks
              /\ writers' = writers
              /\ resp' = [PutReply("put", id, offset, length, 200, "") EXCEPT
                            !.already = TRUE, !.written = 0]
         ELSE IF LockHeld(lks[id], chunkIndex)
         THEN /\ locks' = lks
              /\ writers' = writers
              /\ resp' = PutReply("put", id, offset, length, 409, "chunk_write_in_progress")
         ELSE /\ Len(writers) < MaxWriters
              /\ locks' = [lks EXCEPT ![id] = @ \cup {chunkIndex}]
              /\ writers' = Append(writers,
                     [id |-> id, offset |-> offset, length |-> length,
                      chunkIndex |-> chunkIndex, live |-> TRUE,
                      fileOk |-> HasFile(id), stalled |-> FALSE])
              /\ resp' = PutReply("put", id, offset, length, 0, "")

PutChunk(id, offset, length) ==
  /\ id \in issued \cup {NoSuchId}
  /\ IF GetUpload(id) = Null
     THEN /\ resp' = PutReply("put", id, offset, length, 404, "upload_not_found")
          /\ UNCHANGED << uploads, locks, writers >>
     ELSE IF InvalidRange(GetUpload(id), offset, length)
     THEN /\ resp' = PutReply("put", id, offset, length, 400, "invalid_range")
          /\ uploads' = UploadsAfterGet(id)
          /\ locks' = LocksAfterGet(id)
          /\ UNCHANGED writers
     ELSE WriteChunkAt(id, offset, length)
  /\ UNCHANGED << dirty, debounceTimer, disk, nextId, issued, creators, flushers,
                  aborts, shutdown, snapFailed >>

\* Mutant of the release: the index stays in the lock set.
ReleaseLockNever(lks, w) == lks

\* lockSet.delete(chunkIndex) on the lock set the call captured at line 196.  A
\* call whose descriptor abortUpload has since dropped from the maps (live =
\* FALSE) holds objects nothing else can reach.
ReleaseLock(lks, w) ==
  IF w.live THEN [lks EXCEPT ![w.id] = @ \ {w.chunkIndex}] ELSE lks

\* up.receivedBitset.set(chunkIndex) on the descriptor the call captured (235).
MarkReceived(ups, w) ==
  IF w.live THEN [ups EXCEPT ![w.id].receivedBitset = BitSetSet(@, w.chunkIndex)]
  ELSE ups

\* The stream's bytes in the destination file, when it is still linked.
LandData(fs, w) ==
  IF w.id \in DOMAIN fs
  THEN [fs EXCEPT ![w.id].data = @ \cup { <<w.offset, w.length>> }]
  ELSE fs

\* onFinish (231-242): the write stream finished, which it does when the
\* payload stream it is piped from has ended.
WriteFinish(k) ==
  /\ k \in DOMAIN writers
  /\ writers[k].fileOk
  /\ ~writers[k].stalled
  /\ LET w == writers[k]
     IN  /\ writers' = RemoveAt(writers, k)
         /\ uploads' = MarkReceived(uploads, w)
         /\ dirty' = DirtyAdd(dirty, w.id)
         /\ debounceTimer' = ArmTimer(debounceTimer)
         /\ locks' = ReleaseLock(locks, w)
         /\ files' = LandData(files, w)
         /\ resp' = [PutReply("putDone", w.id, w.offset, w.length, 200, "") EXCEPT
                       !.written = w.length]
  /\ UNCHANGED << metaStore, nextId, issued, creators, flushers, aborts, shutdown, snapFailed >>

\* Error codes a stream of the call can raise.
ErrorCodes(w) ==
  IF w.fileOk THEN { "EBADF", "ERR_STREAM_PREMATURE_CLOSE", "ENOSPC", "ECONNRESET" }
  ELSE { "ENOENT", "ECONNRESET" }

\* Mutant of line 257: the premature close is not recognised.
IsBadFdOnlyEbadf(code) == code = "EBADF"

\* writeChunkAt line 257.
IsBadFd(code) == code \in { "EBADF", "ERR_STREAM_PREMATURE_CLOSE" }

\* The handler's catch (server.js 226-246) of what writeChunkAt throws (255-270).
WriteErrorReply(w, code) ==
  IF code = "ENOSPC"
  THEN PutReply("putDone", w.id, w.offset, w.length, 507, "disk_full")
  ELSE IF IsBadFd(code)
  THEN PutReply("putDone", w.id, w.offset, w.length, 503, "transient_write_failure")
  ELSE PutReply("putDone", w.id, w.offset, w.length, 500, "chunk_upload_failed")

\* Mutant of line 235: the bit is set when the write fails, too.
WriteErrorMarks(k, code) ==
  /\ k \in DOMAIN writers
  /\ code \in ErrorCodes(writers[k])
  /\ ~writers[k].stalled
  /\ writers' = RemoveAt(writers, k)
  /\ locks' = ReleaseLock(locks, writers[k])
  /\ uploads' = MarkReceived(uploads, writers[k])
  /\ resp' = WriteErrorReply(writers[k], code)
  /\ UNCHANGED << dirty, debounceTimer, disk, nextId, issued, creators,
                  flushers, aborts, shutdown, snapFailed >>

\* onError (224-229), the catch (255-270) and the finally (271-274).
WriteError(k, code) ==
  /\ k \in DOMAIN writers
  /\ code \in ErrorCodes(writers[k])
  /\ ~writers[k].stalled
  /\ writers' = RemoveAt(writers, k)
  /\ locks' = ReleaseLock(locks, writers[k])
  /\ resp' = WriteErrorReply(writers[k], code)
  /\ UNCHANGED << uploads, dirty, debounceTimer, disk, nextId, issued, creators,
                  flushers, aborts, shutdown, snapFailed >>

\* The payload stream of a call whose write stream is open delivers nothing
\* more and emits neither 'end' nor 'error': the peer went silent, or the
\* stream was closed and emitted 'close' alone.  doWrite listens for 'data' and
\* 'error' on the payload stream and for 'error' and 'finish' on the write
\* stream (244-247), and sets no timeout: none of its callbacks will run.
PayloadStalls(k) ==
  /\ k \in DOMAIN writers
  /\ writers[k].fileOk
  /\ ~writers[k].stalled
  /\ writers' = [writers EXCEPT ![k].stalled = TRUE]
  /\ resp' = NoResp
  /\ UNCHANGED << memory, disk, nextId, issued, creators, flushers, aborts, shutdown,
                  snapFailed >>

(***************************************************************************)
(* POST /upload/:id/complete (server.js 139-159) and markCompleted.        *)
(***************************************************************************)
CompleteUpload(id) ==
  /\ id \in issued \cup {NoSuchId}
  /\ IF GetUpload(id) = Null
     THEN /\ resp' = Reply("complete", id, 404, "upload_not_found")
          /\ UNCHANGED memory
     ELSE IF Len(GetMissingChunks(id)) > 0
     THEN /\ resp' = [Reply("complete", id, 400, "missing_chunks") EXCEPT
                        !.chunks = GetMissingChunks(id)]
          /\ uploads' = UploadsAfterGet(id)
          /\ locks' = LocksAfterGet(id)
          /\ UNCHANGED << dirty, debounceTimer >>
     ELSE /\ uploads' = [UploadsAfterGet(id) EXCEPT ![id].completed = TRUE]
          /\ locks' = LocksAfterGet(id)
          /\ dirty' = DirtyAdd(dirty, id)
          /\ debounceTimer' = ArmTimer(debounceTimer)
          /\ resp' = Reply("complete", id, 200, "")
  /\ UNCHANGED << disk, nextId, issued, inflight >>

(***************************************************************************)
(* DELETE /upload/:id (server.js 162-177) and abortUpload (293-303).       *)
(* Nothing reads the destination file between the issue of its unlink and  *)
(* the unlink's effect that does not read it the same way before the call, *)
(* and a cached id is never looked up on disk, so the first unlink is      *)
(* taken to act when it is issued and the second when its await resumes.   *)
(* An unlink that fails finds no file (the errors are swallowed).          *)
(***************************************************************************)
Without(f, id) == [i \in DOMAIN f \ {id} |-> f[i]]

\* The handler's lookup, abortUpload's own, and unlink(up.filePath) (294-297).
AbortBegin(id) ==
  /\ id \in issued \cup {NoSuchId}
  /\ IF GetUpload(id) = Null
     THEN /\ resp' = Reply("abort", id, 404, "upload_not_found")
          /\ UNCHANGED << uploads, locks, aborts, files >>
     ELSE /\ Cardinality(aborts) < MaxAborts
          /\ uploads' = UploadsAfterGet(id)
          /\ locks' = LocksAfterGet(id)
          /\ files' = Without(files, id)
          /\ aborts' = aborts \cup { [id |-> id] }
          /\ resp' = NoResp
  /\ UNCHANGED << dirty, debounceTimer, metaStore, nextId, issued, creators, writers,
                  flushers, shutdown, snapFailed >>

\* unlink(this._metaPath(id)) (299), lines 300-302 and the handler's 200.  The
\* calls still writing to the id keep the descriptor and the lock set they
\* captured, which the maps no longer hold.
AbortFinish(a) ==
  /\ a \in aborts
  /\ metaStore' = Without(metaStore, a.id)
  /\ uploads' = Without(uploads, a.id)
  /\ locks' = Without(locks, a.id)
  /\ dirty' = DirtyDelete(dirty, a.id)
  /\ writers' = [k \in DOMAIN writers |->
                   [writers[k] EXCEPT !.live = IF writers[k].id = a.id THEN FALSE ELSE @]]
  /\ aborts' = aborts \ {a}
  /\ resp' = Reply("abort", a.id, 200, "")
  /\ UNCHANGED << debounceTimer, files, nextId, issued, creators, flushers, shutdown,
                  snapFailed >>

(***************************************************************************)
(* The process ends and a new one starts: a new UploadManager (43-50) over *)
(* the same storage directory.  Whatever the old process had in flight is  *)
(* gone.                                                                   *)
(***************************************************************************)
Restart ==
  /\ uploads' = << >>
  /\ locks' = << >>
  /\ dirty' = << >>
  /\ debounceTimer' = 0
  /\ creators' = {}
  /\ writers' = << >>
  /\ flushers' = << >>
  /\ aborts' = {}
  /\ shutdown' = Null
  /\ UNCHANGED << disk, nextId, issued >>

\* The process is killed.
Crash ==
  /\ Restart
  /\ snapFailed' = FALSE
  /\ resp' = NoResp

(***************************************************************************)
(* _flushDirty (61-86), the debounce timer (58) and flushAllMetadata.      *)
(***************************************************************************)
\* The loop's  if (!up) continue  (67-68): the ids left, up to the first cached.
RECURSIVE SkipGone(_, _)
SkipGone(ids, ups) ==
  IF ids = << >> THEN << >>
  ELSE IF Head(ids) \in DOMAIN ups THEN ids
  ELSE SkipGone(Tail(ids), ups)

\* One iteration of the loop up to its await (67-80): the snapshot of the
\* first id still cached is built and its writeFile issued.
Flusher(kind, ids, ups) ==
  [kind |-> kind, cur |-> Head(ids), meta |-> MetaOf(ups[Head(ids)]),
   rest |-> Tail(ids), landed |-> FALSE]

\* The debounce timer fires: _flushDirty from line 62 to its first await.
TimerFire ==
  /\ debounceTimer > 0
  /\ Cardinality({ k \in DOMAIN flushers : flushers[k].kind = "timer" }) < MaxFlushers
  /\ dirty' = << >>
  /\ debounceTimer' = 0
  /\ flushers' = IF SkipGone(dirty, uploads) = << >> THEN flushers
                 ELSE Append(flushers, Flusher("timer", SkipGone(dirty, uploads), uploads))
  /\ resp' = NoResp
  /\ UNCHANGED << uploads, locks, disk, nextId, issued, creators, writers, aborts,
                  shutdown, snapFailed >>

\* Mutant of the catch of lines 81-84: a failed write ends the batch.
FlushLandAbortsBatch(k, ok) ==
  /\ k \in DOMAIN flushers
  /\ ~flushers[k].landed
  /\ flushers' = [flushers EXCEPT ![k].landed = TRUE,
                                  ![k].rest = IF ok THEN @ ELSE << >>]
  /\ metaStore' = IF ok THEN (flushers[k].cur :> flushers[k].meta) @@ metaStore
                  ELSE metaStore
  /\ snapFailed' = (snapFailed \/ ~ok)
  /\ resp' = NoResp
  /\ UNCHANGED << memory, files, nextId, issued, creators, writers, aborts, shutdown >>

\* writeFile (line 80) reaches the disk: the snapshot file is created or
\* overwritten; or it fails (81-84) and the file is as it was.
FlushLand(k, ok) ==
  /\ k \in DOMAIN flushers
  /\ ~flushers[k].landed
  /\ flushers' = [flushers EXCEPT ![k].landed = TRUE]
  /\ metaStore' = IF ok THEN (flushers[k].cur :> flushers[k].meta) @@ metaStore
                  ELSE metaStore
  /\ snapFailed' = (snapFailed \/ ~ok)
  /\ resp' = NoResp
  /\ UNCHANGED << memory, files, nextId, issued, creators, writers, aborts, shutdown >>

\* The await of line 80 resumes: the next iteration, or the loop ends.  When
\* the loop of flushAllMetadata ends, shutdown() goes on to process.exit(0)
\* (server.js 270-274) with nothing in between.
FlushResume(k) ==
  /\ k \in DOMAIN flushers
  /\ flushers[k].landed
  /\ LET f == flushers[k]
         ids == SkipGone(f.rest, uploads)
     IN  IF ids # << >>
         THEN /\ flushers' = [flushers EXCEPT ![k] = Flusher(f.kind, ids, uploads)]
              /\ resp' = NoResp
              /\ UNCHANGED << memory, creators, writers, aborts, shutdown, snapFailed >>
         ELSE IF f.kind = "timer"
         THEN /\ flushers' = RemoveAt(flushers, k)
              /\ resp' = NoResp
              /\ UNCHANGED << memory, creators, writers, aborts, shutdown, snapFailed >>
         ELSE /\ Restart
              /\ snapFailed' = FALSE
              /\ resp' = Reply("shutdown", NoSuchId, 0, "")
  /\ UNCHANGED << disk, nextId, issued >>

\* SIGINT / SIGTERM: shutdown() (server.js 267-275) calls flushAllMetadata
\* (88-94), which cancels the timer and runs _flushDirty.  With nothing to
\* write the await resumes in the same turn of the event loop and the process
\* exits.
Shutdown ==
  /\ shutdown = Null
  /\ IF SkipGone(dirty, uploads) = << >>
     THEN /\ Restart
          /\ snapFailed' = FALSE
          /\ resp' = Reply("shutdown", NoSuchId, 0, "")
     ELSE /\ dirty' = << >>
          /\ debounceTimer' = 0
          /\ flushers' = Append(flushers, Flusher("shutdown", SkipGone(dirty, uploads), uploads))
          /\ shutdown' = [atCall |-> uploads]
          /\ resp' = NoResp
          /\ UNCHANGED << uploads, locks, creators, writers, aborts, snapFailed >>
  /\ UNCHANGED << disk, nextId, issued >>

\* A state-changing request or signal is received while the run's budget lasts.
Call == calls < MaxCalls /\ calls' = calls + 1
\* A status read, an I/O callback or the timer.
NoCall == UNCHANGED calls

Next ==
  \/ \E cfg \in Configs, ok \in BOOLEAN : Call /\ CreateSnapshot(cfg, ok)
  \/ \E c \in creators, ok \in BOOLEAN : NoCall /\ CreateAllocate(c, ok)
  \/ \E id \in issued \cup {NoSuchId} : NoCall /\ GetStatus(id)
  \/ \E id \in issued \cup {NoSuchId}, r \in Ranges : Call /\ PutChunk(id, r[1], r[2])
  \/ \E k \in DOMAIN writers : NoCall /\ WriteFinish(k)
  \/ \E k \in DOMAIN writers : \E code \in ErrorCodes(writers[k]) :
        NoCall /\ WriteError(k, code)
  \/ \E id \in issued \cup {NoSuchId} : Call /\ CompleteUpload(id)
  \/ \E id \in issued \cup {NoSuchId} : Call /\ AbortBegin(id)
  \/ \E a \in aborts : NoCall /\ AbortFinish(a)
  \/ NoCall /\ TimerFire
  \/ \E k \in DOMAIN flushers, ok \in BOOLEAN : NoCall /\ FlushLand(k, ok)
  \/ \E k \in DOMAIN flushers : NoCall /\ FlushResume(k)
  \/ Call /\ Shutdown
  \/ Call /\ Crash

Spec == Init /\ [][Next]_vars

(***************************************************************************)
(* The server with payload streams that can stall, and with the event loop *)
(* running every callback that is due: the completion of each file system  *)
(* call, the end or the error of each stream that has one to deliver, and  *)
(* the debounce timer.  Requests and signals are under no such obligation. *)
(***************************************************************************)
NextLive ==
  \/ Next
  \/ \E k \in DOMAIN writers : NoCall /\ PayloadStalls(k)

\* The write of slot k settles: onFinish or onError runs.
Settle(k) ==
  /\ k \in DOMAIN writers
  /\ NoCall
  /\ (WriteFinish(k) \/ \E code \in ErrorCodes(writers[k]) : WriteError(k, code))

EventLoop ==
  /\ \A k \in 1..MaxWriters : WF_vars(Settle(k))
  /\ WF_vars(\E c \in creators, ok \in BOOLEAN : NoCall /\ CreateAllocate(c, ok))
  /\ WF_vars(\E a \in aborts : NoCall /\ AbortFinish(a))
  /\ WF_vars(NoCall /\ TimerFire)
  /\ WF_vars(\E k \in DOMAIN flushers, ok \in BOOLEAN : NoCall /\ FlushLand(k, ok))
  /\ WF_vars(\E k \in DOMAIN flushers : NoCall /\ FlushResume(k))

SpecLive == Init /\ [][NextLive]_vars /\ EventLoop

(***************************************************************************)
(* What the claims speak of.                                               *)
(***************************************************************************)
\* The writeChunkAt calls in flight on chunk idx of the upload the registry
\* holds under id.  A call whose upload abortUpload has destroyed meanwhile
\* (live = FALSE) writes for that destroyed upload, not for the registry's.
LiveWriters(id, idx) ==
  { k \in DOMAIN writers :
      writers[k].live /\ writers[k].id = id /\ writers[k].chunkIndex = idx }

\* The step is the PUT handler receiving a request (it answers in resp').
PutStep == resp'.op = "put" /\ calls' = calls + 1
\* The request of a PutStep reaches writeChunkAt with a descriptor.
PutReachesWrite ==
  /\ PutStep
  /\ GetUpload(resp'.id) # Null
  /\ ~InvalidRange(GetUpload(resp'.id), resp'.offset, resp'.length)
\* floor(offset / chunkSize) of the request of a PutStep.
PutIndex == resp'.offset \div GetUpload(resp'.id).chunkSize
\* The request of a PutStep was accepted: its positional write is in flight.
PutAccepted ==
  /\ resp'.code = 0
  /\ Len(writers') = Len(writers) + 1
  /\ \A k \in DOMAIN writers : writers'[k] = writers[k]
  /\ LET w == writers'[Len(writers')]
     IN  w.id = resp'.id /\ w.offset = resp'.offset /\ w.live
\* The step is writeChunkAt call k settling (success or failure).
DoneStep(k) ==
  /\ k \in DOMAIN writers
  /\ writers' = RemoveAt(writers, k)
  /\ resp'.op = "putDone"
  /\ resp'.id = writers[k].id /\ resp'.offset = writers[k].offset

Ascending(s) == \A i, j \in DOMAIN s : i < j => s[i] < s[j]

(***************************************************************************)
(* C1  Mutual exclusion per chunk index.  In every reachable state at most *)
(* one positional write is in flight per (upload, chunk index); and a      *)
(* writeChunk that arrives for a chunk index that is not yet received      *)
(* while another call is writing it starts no write and fails with         *)
(* Conflict (409), so of two concurrent calls exactly one is accepted.     *)
(***************************************************************************)
C1_OneWriterPerIndex ==
  \A id \in DOMAIN uploads :
    \A idx \in 0..(uploads[id].receivedBitset.length - 1) :
      Cardinality(LiveWriters(id, idx)) <= 1

C1_SecondCallConflicts ==
  (PutReachesWrite /\ LiveWriters(resp'.id, PutIndex) # {})
    => /\ resp'.code = 409
       /\ writers' = writers
       /\ locks' = locks

C1_MutualExclusion == []C1_OneWriterPerIndex /\ [][C1_SecondCallConflicts]_vars

\* A second call on the chunk index a write is in flight for was just refused.
C1_Witness ==
  /\ resp.op = "put" /\ resp.code = 409
  /\ Cached(resp.id)
  /\ LiveWriters(resp.id, ChunkIndex(resp.offset, uploads[resp.id].chunkSize)) # {}
  /\ ~BitSetHas(uploads[resp.id].receivedBitset,
                ChunkIndex(resp.offset, uploads[resp.id].chunkSize))


(***************************************************************************)
(* C2  The lock is released on every exit path.  When a writeChunkAt call  *)
(* that took the lock of its chunk index settles, with success (200), a    *)
(* transient failure (503) or a fatal one (500, 507), the index is out of  *)
(* the lock set of its upload; and in every reachable state each locked    *)
(* index has a write in flight, so no request is ever answered 409 on      *)
(* account of a call that has finished.                                    *)
(***************************************************************************)
C2_NoStaleLock ==
  \A id \in DOMAIN locks : \A idx \in locks[id] : LiveWriters(id, idx) # {}

C2_ReleasedOnReturn ==
  \A k \in DOMAIN writers :
    (DoneStep(k) /\ writers[k].live)
      => /\ resp'.code \in {200, 500, 503, 507}
         /\ writers[k].id \in DOMAIN locks'
         /\ writers[k].chunkIndex \notin locks'[writers[k].id]

C2_ConflictOnlyWithWriter ==
  (PutStep /\ resp'.code = 409) => LiveWriters(resp'.id, PutIndex) # {}

C2_LockCleared ==
  /\ []C2_NoStaleLock
  /\ [][C2_ReleasedOnReturn /\ C2_ConflictOnlyWithWriter]_vars

\* A call has just failed as transient and its index is free again.
C2_Witness ==
  /\ resp.op = "putDone" /\ resp.code = 503
  /\ resp.id \in DOMAIN locks
  /\ Cached(resp.id)
  /\ ChunkIndex(resp.offset, uploads[resp.id].chunkSize) \notin locks[resp.id]
  /\ ~BitSetHas(uploads[resp.id].receivedBitset,
                ChunkIndex(resp.offset, uploads[resp.id].chunkSize))


(***************************************************************************)
(* C3  Write, then status.  When a writeChunkAt call with offset >= 0,     *)
(* length > 0 and offset + length <= totalSize returns success, on an      *)
(* upload the registry still holds (it was not aborted while the write was *)
(* in flight), the status read that follows answers 200 and lists          *)
(* floor(offset / chunkSize) in receivedChunks, and its receivedCount is   *)
(* the number of indices listed.  With totalSize = 150 and chunkSize = 64, *)
(* the write of offset 128, length 22 to an upload with nothing received   *)
(* gives totalChunks = 3, receivedChunks = [2] and receivedCount = 1.      *)
(***************************************************************************)
C3_Listed(id, offset, st) ==
  /\ st.code = 200
  /\ \E i \in DOMAIN st.chunks : st.chunks[i] = offset \div st.chunkSize
  /\ st.count = Cardinality(Range(st.chunks))
  /\ st.count = Len(st.chunks)

C3_Example(up, offset, length, st) ==
  ( /\ up.totalSize = 150 /\ up.chunkSize = 64
    /\ offset = 128 /\ length = 22
    /\ ToArray(up.receivedBitset) = << >> )
    => st.totalChunks = 3 /\ st.chunks = << 2 >> /\ st.count = 1

C3_AfterWrite ==
  \A k \in DOMAIN writers : \A id \in issued :
    ( /\ DoneStep(k) /\ resp'.code = 200
      /\ writers[k].id = id /\ writers[k].live
      /\ writers[k].offset >= 0 /\ writers[k].length > 0
      /\ writers[k].offset + writers[k].length <= uploads[id].totalSize )
      => /\ C3_Listed(id, writers[k].offset, StatusOf(id)')
         /\ C3_Example(uploads[id], writers[k].offset, writers[k].length,
                       StatusOf(id)')

C3_AfterRedelivery ==
  \A id \in issued :
    (PutReachesWrite /\ resp'.id = id /\ resp'.code = 200)
      => C3_Listed(id, resp'.offset, StatusOf(id)')

C3_WriteThenStatus == [][C3_AfterWrite /\ C3_AfterRedelivery]_vars

\* The write of the example has just returned success on a fresh upload.
C3_Witness ==
  /\ resp.op = "putDone" /\ resp.code = 200
  /\ resp.offset = 128 /\ resp.length = 22
  /\ StatusOf(resp.id).totalSize = 150
  /\ StatusOf(resp.id).chunks = << 2 >>
  /\ StatusOf(resp.id).count = 1


(***************************************************************************)
(* C4  Idempotent re-delivery.  A writeChunkAt for a chunk index that is   *)
(* already in the bitmap answers alreadyReceived = true with written = 0,  *)
(* starts no write, and leaves the destination file, the bitmap (the whole *)
(* descriptor), the snapshot and the dirty set as they were; this holds of *)
(* every delivery, so of any number of them in a row.                      *)
(***************************************************************************)
C4_Redelivery ==
  \A id \in issued :
    ( /\ PutReachesWrite /\ resp'.id = id
      /\ BitSetHas(GetUpload(id).receivedBitset, PutIndex) )
      => /\ resp'.code = 200 /\ resp'.already /\ resp'.written = 0
         /\ writers' = writers
         /\ files' = files
         /\ metaStore' = metaStore
         /\ dirty' = dirty
         /\ GetUpload(id)' = GetUpload(id)
         /\ StatusOf(id)' = StatusOf(id)

C4_Idempotent == [][C4_Redelivery]_vars

\* A chunk that was received has just been delivered again.
C4_Witness ==
  /\ resp.op = "put" /\ resp.already /\ resp.written = 0
  /\ Cached(resp.id)
  /\ BitSetHas(uploads[resp.id].receivedBitset,
               ChunkIndex(resp.offset, uploads[resp.id].chunkSize))
  /\ HasFile(resp.id) /\ files[resp.id].data # {}


(***************************************************************************)
(* C5  Distinct chunk indices do not interfere.  A writeChunkAt is refused *)
(* with 409 only when a write is in flight on its own chunk index: with    *)
(* writes in flight on other indices of the upload only, a call on an      *)
(* index that is not received is accepted.  When a write returns success   *)
(* the received set grows by exactly its index, its lock alone is           *)
(* released and the other writes in flight are untouched, whichever of the *)
(* concurrent writes finishes first.                                       *)
(***************************************************************************)
C5_OthersDoNotConflict ==
  \A id \in issued :
    ( /\ PutReachesWrite /\ resp'.id = id
      /\ ~BitSetHas(GetUpload(id).receivedBitset, PutIndex)
      /\ LiveWriters(id, PutIndex) = {}
      /\ Len(writers) < MaxWriters )
      => /\ PutAccepted
         /\ locks'[id] = LocksAfterGet(id)[id] \cup {PutIndex}

C5_ExactlyTheFinished ==
  \A k \in DOMAIN writers : \A id \in issued :
    (DoneStep(k) /\ resp'.code = 200 /\ writers[k].id = id /\ writers[k].live)
      => /\ Range(StatusOf(id)'.chunks)
              = Range(StatusOf(id).chunks) \cup {writers[k].offset \div uploads[id].chunkSize}
         /\ locks'[id] = locks[id] \ {writers[k].offset \div uploads[id].chunkSize}
         /\ \A j \in DOMAIN writers \ {k} :
               writers'[IF j < k THEN j ELSE j - 1] = writers[j]
         /\ \A other \in DOMAIN uploads \ {id} :
               uploads'[other] = uploads[other] /\ locks'[other] = locks[other]

C5_DisjointConcurrency ==
  [][C2_ConflictOnlyWithWriter /\ C5_OthersDoNotConflict /\ C5_ExactlyTheFinished]_vars

\* Of two writes in flight together on chunks 0 and 2 of one upload, the one
\* on chunk 2 has returned success while the other is still in flight.
C5_Witness ==
  /\ resp.op = "putDone" /\ resp.code = 200 /\ resp.offset = 128
  /\ Cached(resp.id)
  /\ LiveWriters(resp.id, 0) # {}
  /\ ToArray(uploads[resp.id].receivedBitset) = << 2 >>
  /\ locks[resp.id] = {0}


(***************************************************************************)
(* C6  Abort is final.  When abortUpload(id) has returned (the DELETE is   *)
(* answered 200) neither the destination file nor the snapshot of id       *)
(* exists and a status read of id answers 404; and from then on this stays *)
(* so, whatever a metadata flush (timer or flushAllMetadata) that was      *)
(* pending or in progress for id at the time of the abort does later.      *)
(***************************************************************************)
C6_Gone(id) == ~HasMeta(id) /\ ~HasFile(id) /\ StatusOf(id).code = 404

C6_GoneAtReturn ==
  \A id \in issued : (resp.op = "abort" /\ resp.code = 200 /\ resp.id = id) => C6_Gone(id)

\* An id that was issued exists on disk from its creation on, so it is gone
\* only once an abort of it has returned.
C6_StaysGone == \A id \in issued : C6_Gone(id) => C6_Gone(id)'

C6_AbortIsFinal == []C6_GoneAtReturn /\ [][C6_StaysGone]_vars


(***************************************************************************)
(* C7  The shutdown flush persists everything.  When flushAllMetadata      *)
(* returns (shutdown() goes on to process.exit) and no snapshot write of   *)
(* the process has failed, the snapshot on disk of every upload that was   *)
(* registered at the call and still is holds every chunk index the upload  *)
(* had received, and its completion, at the time of the call; a timer      *)
(* flush that was still writing when flushAllMetadata was called makes no  *)
(* difference.                                                             *)
(***************************************************************************)
\* The registry as it was when flushAllMetadata was called.
C7_Before == IF shutdown = Null THEN uploads ELSE shutdown.atCall

C7_FlushedAtExit ==
  \A id \in issued :
    ( /\ resp'.op = "shutdown" /\ ~snapFailed
      /\ id \in DOMAIN C7_Before /\ id \in DOMAIN uploads
      /\ \A a \in aborts : a.id # id )
      => /\ HasMeta(id)'
         /\ Range(ToArray(C7_Before[id].receivedBitset))
               \subseteq Range(metaStore'[id].receivedChunks)
         /\ C7_Before[id].completed => metaStore'[id].completed

C7_ShutdownFlush == [][C7_FlushedAtExit]_vars


(***************************************************************************)
(* C8  Round trip through the snapshot.  After chunks were written to an   *)
(* upload, a flush was forced (flushAllMetadata was called and returned    *)
(* with no snapshot write failed, nothing having been written to the       *)
(* upload meanwhile) and the process restarted with an empty registry, the *)
(* status read that reloads the upload answers 200 with receivedChunks     *)
(* exactly the indices that were in the bitmap, in ascending order, with   *)
(* the same totalSize and chunkSize, and the reloaded descriptor has the   *)
(* same completed flag.                                                    *)
(***************************************************************************)
C8_ReloadedAsFlushed ==
  \A id \in issued :
    ( /\ resp'.op = "shutdown" /\ ~snapFailed
      /\ id \in DOMAIN C7_Before /\ id \in DOMAIN uploads
      /\ uploads[id] = C7_Before[id]
      /\ \A a \in aborts : a.id # id )
      => /\ ~Cached(id)'
         /\ StatusOf(id)'.code = 200
         /\ StatusOf(id)'.chunks = ToArray(uploads[id].receivedBitset)
         /\ Ascending(StatusOf(id)'.chunks)
         /\ StatusOf(id)'.totalSize = uploads[id].totalSize
         /\ StatusOf(id)'.chunkSize = uploads[id].chunkSize
         /\ GetUpload(id)'.completed = uploads[id].completed

C8_RoundTrip == [][C8_ReloadedAsFlushed]_vars

\* The encoding alone: every snapshot on disk decodes (getUpload) to a
\* descriptor that encodes (_flushDirty) to the same snapshot, with its
\* indices in ascending order.
C8_SnapshotDecodes ==
  \A id \in DOMAIN metaStore :
    /\ MetaOf(LoadMeta(metaStore[id])) = metaStore[id]
    /\ Ascending(metaStore[id].receivedChunks)


(***************************************************************************)
(* C9  The completion gate.  POST /upload/:id/complete on a known upload   *)
(* answers 200 and sets completed only when every index of                 *)
(* [0, ceil(totalSize / chunkSize)) is received; otherwise it answers 400  *)
(* with exactly the indices of that range that are not received, each      *)
(* once and ascending, and the descriptor stays as it was, not completed.  *)
(* Hence in every reachable state a completed descriptor, in memory or in  *)
(* a snapshot, has no chunk missing.  With 10 chunks of which 0, 1, 2 and  *)
(* 5 are received the missing indices are 3, 4, 6, 7, 8, 9.                *)
(***************************************************************************)
C9_Missing(up) ==
  { i \in 0..(Ceil(up.totalSize, up.chunkSize) - 1) :
      i \notin Range(ToArray(up.receivedBitset)) }

C9_Gate ==
  \A id \in issued :
    (resp'.op = "complete" /\ resp'.id = id /\ GetUpload(id) # Null)
      => IF C9_Missing(GetUpload(id)) = {}
         THEN /\ resp'.code = 200
              /\ GetUpload(id)'.completed
              /\ GetUpload(id)'.receivedBitset = GetUpload(id).receivedBitset
         ELSE /\ resp'.code = 400
              /\ Range(resp'.chunks) = C9_Missing(GetUpload(id))
              /\ Ascending(resp'.chunks)
              /\ GetUpload(id)' = GetUpload(id)
              /\ ~GetUpload(id)'.completed

C9_CompletedHasAll ==
  /\ \A id \in DOMAIN uploads :
        uploads[id].completed => C9_Missing(uploads[id]) = {}
  /\ \A id \in DOMAIN metaStore :
        metaStore[id].completed => C9_Missing(LoadMeta(metaStore[id])) = {}

C9_Example ==
  MissingOf([totalSize |-> 10, chunkSize |-> 1, completed |-> FALSE,
             receivedBitset |-> FromArray(<< 0, 1, 2, 5 >>, BitsetLength(10, 1))])
    = << 3, 4, 6, 7, 8, 9 >>

C9_GateSteps == [][C9_Gate]_vars

C9_CompletionGate == [](C9_CompletedHasAll /\ C9_Example) /\ C9_GateSteps

\* A complete was just refused on an upload of three chunks that has only
\* chunk 1.
C9_Witness ==
  /\ resp.op = "complete" /\ resp.code = 400
  /\ resp.chunks = << 0, 2 >>
  /\ Cached(resp.id) /\ ~uploads[resp.id].completed
  /\ ToArray(uploads[resp.id].receivedBitset) = << 1 >>


(***************************************************************************)
(* C10  An id is discoverable before it is handed out.  When the initiate  *)
(* handler answers 200 with an id, the snapshot of the id is on disk with  *)
(* no chunk received and the sizes of the request, and the destination     *)
(* file exists with size totalSize.  In every state an upload that has its *)
(* file also has its snapshot; so after a restart that found the upload    *)
(* with no chunk arrived, a status read reloads it from the snapshot and   *)
(* answers 200 with the same sizes and an empty received set.              *)
(***************************************************************************)
C10_AtReturn ==
  \A id \in issued :
    (resp.op = "initiate" /\ resp.code = 200 /\ resp.id = id)
      => /\ HasMeta(id)
         /\ metaStore[id].receivedChunks = << >>
         /\ ~metaStore[id].completed
         /\ metaStore[id].chunkSize = resp.chunkSize
         /\ HasFile(id)
         /\ files[id].size = metaStore[id].totalSize
         /\ \E cfg \in Configs :
               cfg.totalSize = files[id].size /\ cfg.chunkSize = resp.chunkSize

C10_OnDisk ==
  \A id \in issued :
    HasFile(id)
      => /\ HasMeta(id)
         /\ metaStore[id].totalSize = files[id].size
         /\ (Cached(id) /\ ToArray(uploads[id].receivedBitset) = << >>)
               => metaStore[id].receivedChunks = << >>

C10_ColdStart ==
  \A id \in issued :
    (~Cached(id) /\ HasFile(id) /\ files[id].data = {})
      => /\ GetUpload(id) # Null
         /\ GetReceivedChunksArray(id) = << >>
         /\ StatusOf(id).code = 200
         /\ StatusOf(id).count = 0
         /\ StatusOf(id).totalSize = files[id].size

C10_Discoverable == C10_AtReturn /\ C10_OnDisk /\ C10_ColdStart

\* The process restarted before any chunk of an upload arrived and before
\* any flush rewrote its snapshot: the upload is on disk only.
C10_Witness ==
  \E id \in issued :
    /\ ~Cached(id)
    /\ HasFile(id) /\ files[id].data = {}
    /\ HasMeta(id) /\ metaStore[id].receivedChunks = << >>
    /\ flushers = << >> /\ dirty = << >> /\ calls = 2


(***************************************************************************)
(* C11  A failed create leaves nothing in memory.  When the initial        *)
(* snapshot write or the allocation of the destination file fails, the     *)
(* initiate handler answers an error (500, or 507 for ENOSPC) that carries *)
(* no id, and the registry, the lock sets, the dirty set and the debounce  *)
(* timer are as they were before the call; no id is issued.                *)
(***************************************************************************)
C11_FailedCreate ==
  (resp'.op = "initiate" /\ resp'.code # 200)
    => /\ resp'.code \in {500, 507}
       /\ resp'.id = NoSuchId
       /\ uploads' = uploads
       /\ locks' = locks
       /\ dirty' = dirty
       /\ debounceTimer' = debounceTimer
       /\ issued' = issued

\* The ids of the snapshots on disk that createUpload wrote for calls that
\* have ended without being issued are never in the registry unasked.
C11_NoPartialEntry ==
  \A id \in (DOMAIN uploads \cup DOMAIN locks \cup Range(dirty)) : id \in issued

C11_CreateFails == []C11_NoPartialEntry /\ [][C11_FailedCreate]_vars

\* The allocation has just failed after the snapshot write succeeded: the
\* snapshot of an id that was never issued is on disk, nothing is in memory.
C11_Witness ==
  /\ resp.op = "initiate" /\ resp.code = 507
  /\ \E id \in DOMAIN metaStore :
        id \notin issued /\ ~Cached(id) /\ ~HasFile(id)
        /\ \A c \in creators : c.id # id
  /\ uploads = << >> /\ dirty = << >> /\ debounceTimer = 0


(***************************************************************************)
(* C12  Abort never visibly fails.  Every abort request is answered ok     *)
(* (200): for an upload whose file or snapshot is already missing, for an  *)
(* id that was aborted before and for an id the server never issued; and   *)
(* an abort of an id that is already gone answers as the first one did and *)
(* leaves memory and disk as they are.                                     *)
(***************************************************************************)
C12_AlwaysOk == resp.op = "abort" => resp.code = 200

C12_AgainIsTheSame ==
  \A id \in issued \cup {NoSuchId} :
    (resp'.op = "abort" /\ resp'.id = id /\ C6_Gone(id) /\ aborts = {})
      => /\ resp'.code = 200
         /\ uploads' = uploads /\ locks' = locks /\ dirty' = dirty
         /\ metaStore' = metaStore /\ files' = files

C12_AbortNeverFails == []C12_AlwaysOk /\ [][C12_AgainIsTheSame]_vars


(***************************************************************************)
(* C13  A failed snapshot write does not stop the batch.  When the         *)
(* writeFile of one id of a flush batch comes back, failed or not, the     *)
(* worker keeps the rest of its batch and, resuming, issues the write of   *)
(* the next id of the batch that is still registered; the step answers no  *)
(* request and touches no write in flight, no descriptor and no dirty set: *)
(* the failed id is not queued again.  An id enters the dirty set only in  *)
(* a step that answers a successful create, chunk write or complete of it. *)
(***************************************************************************)
\* The writeFile of flush worker k comes back in this step.
C13_LandStep(k) ==
  /\ k \in DOMAIN flushers /\ Len(flushers') = Len(flushers)
  /\ ~flushers[k].landed /\ flushers'[k].landed

C13_FailureIsSwallowed ==
  \A k \in DOMAIN flushers :
    C13_LandStep(k)
      => /\ flushers'[k].rest = flushers[k].rest
         /\ flushers'[k].cur = flushers[k].cur
         /\ resp' = NoResp
         /\ writers' = writers /\ uploads' = uploads /\ locks' = locks
         /\ dirty' = dirty /\ debounceTimer' = debounceTimer
         /\ (~snapFailed /\ snapFailed') => metaStore' = metaStore

\* Worker k resumes after its write came back and has ids left.
C13_BatchGoesOn ==
  \A k \in DOMAIN flushers :
    ( /\ flushers[k].landed
      /\ Len(flushers') = Len(flushers)
      /\ flushers'[k] # flushers[k]
      /\ SkipGone(flushers[k].rest, uploads) # << >> )
      => /\ ~flushers'[k].landed
         /\ flushers'[k].cur = Head(SkipGone(flushers[k].rest, uploads))
         /\ flushers'[k].meta.receivedChunks
              = ToArray(uploads[flushers'[k].cur].receivedBitset)
         /\ dirty' = dirty

\* While the process runs, a worker ends only with nothing left to write.
C13_BatchEndsWhenDone ==
  (calls' = calls /\ resp' = NoResp /\ Len(flushers') = Len(flushers) - 1)
    => \E k \in DOMAIN flushers :
         /\ flushers[k].landed
         /\ SkipGone(flushers[k].rest, uploads) = << >>
         /\ flushers' = RemoveAt(flushers, k)

C13_QueuedByMutationOnly ==
  \A id \in issued \cup 1..MaxUploads :
    (id \notin Range(dirty) /\ id \in Range(dirty'))
      => /\ resp'.op \in {"initiate", "putDone", "complete"}
         /\ resp'.code = 200 /\ resp'.id = id

C13_FlushFailure ==
  [][/\ C13_FailureIsSwallowed /\ C13_BatchGoesOn /\ C13_BatchEndsWhenDone
     /\ C13_QueuedByMutationOnly]_vars

\* The snapshot write of upload 1 failed in a batch of two; the worker is
\* now writing upload 2, and upload 1, whose chunk 0 is not on disk, is not
\* in the dirty set.
C13_Witness ==
  /\ snapFailed
  /\ \E k \in DOMAIN flushers : flushers[k].cur = 2 /\ flushers[k].kind = "timer"
  /\ Cached(1) /\ HasMeta(1)
  /\ ToArray(uploads[1].receivedBitset) = << 0 >>
  /\ metaStore[1].receivedChunks = << >>
  /\ 1 \notin Range(dirty)


(***************************************************************************)
(* C14  Transient or fatal, never both.  A positional write that fails is  *)
(* answered 503 transient_write_failure exactly when the stream failed     *)
(* with EBADF (stale handle) or ERR_STREAM_PREMATURE_CLOSE; every other    *)
(* failure is answered as fatal, 507 disk_full for ENOSPC and 500          *)
(* chunk_upload_failed otherwise, without the transient marking.  The      *)
(* chunk is not marked received in either case.                            *)
(***************************************************************************)
C14_Causes == { "EBADF", "ERR_STREAM_PREMATURE_CLOSE", "ENOSPC", "ECONNRESET", "ENOENT" }

C14_Classified ==
  \A k \in DOMAIN writers : \A cause \in C14_Causes :
    WriteError(k, cause)
      => /\ resp'.op = "putDone"
         /\ IF cause \in {"EBADF", "ERR_STREAM_PREMATURE_CLOSE"}
            THEN resp'.code = 503 /\ resp'.error = "transient_write_failure"
            ELSE IF cause = "ENOSPC"
            THEN resp'.code = 507 /\ resp'.error = "disk_full"
            ELSE resp'.code = 500 /\ resp'.error = "chunk_upload_failed"
         /\ uploads' = uploads /\ dirty' = dirty

C14_OneClass ==
  (resp'.op = "putDone" /\ resp'.code # 200)
    => /\ resp'.code \in {500, 503, 507}
       /\ (resp'.code = 503) <=> (resp'.error = "transient_write_failure")
       /\ \E k \in DOMAIN writers : \E cause \in C14_Causes : WriteError(k, cause)

C14_TransientOrFatal == [][C14_Classified /\ C14_OneClass]_vars

\* A write has just failed with the disk full: answered as fatal, the chunk
\* not received and its index free.
C14_Witness ==
  /\ resp.op = "putDone" /\ resp.code = 507 /\ resp.error = "disk_full"
  /\ Cached(resp.id)
  /\ ~BitSetHas(uploads[resp.id].receivedBitset,
                ChunkIndex(resp.offset, uploads[resp.id].chunkSize))
  /\ LiveWriters(resp.id, ChunkIndex(resp.offset, uploads[resp.id].chunkSize)) = {}


(***************************************************************************)
(* C15  The status reports the completed flag.  Every 200 answer of the    *)
(* status read carries completed, equal to the flag of the upload: false   *)
(* as long as no complete has succeeded on it, true afterwards.            *)
(***************************************************************************)
C15_StatusReportsCompleted ==
  \A id \in issued :
    StatusOf(id).code = 200
      => StatusOf(id).completed = { GetUpload(id).completed }


(***************************************************************************)
(* The BitSet class on its own: a bitmap of any length up to MaxBitLength, *)
(* held as the bitmap of upload 1, on which set(i) is called with indices  *)
(* inside and outside [0, length), negative ones included.                 *)
(***************************************************************************)
BitIndices == (0 - 9)..(MaxBitLength + 12)

InitBitSet ==
  /\ \E length \in 1..MaxBitLength :
        uploads = (1 :> [totalSize |-> length, chunkSize |-> 1, completed |-> FALSE,
                         receivedBitset |-> NewBitSet(length)])
  /\ locks = (1 :> {})
  /\ dirty = << >>
  /\ debounceTimer = 0
  /\ metaStore = << >>
  /\ files = << >>
  /\ nextId = 1
  /\ issued = {}
  /\ creators = {}
  /\ writers = << >>
  /\ flushers = << >>
  /\ aborts = {}
  /\ shutdown = Null
  /\ snapFailed = FALSE
  /\ calls = 0
  /\ resp = NoResp

\* up.receivedBitset.set(i)
BitSetCall(i) ==
  /\ uploads' = [uploads EXCEPT ![1].receivedBitset = BitSetSet(@, i)]
  /\ UNCHANGED << locks, dirty, debounceTimer, disk, nextId, issued, inflight, calls, resp >>

NextBitSet == \E i \in BitIndices : BitSetCall(i)

SpecBitSet == InitBitSet /\ [][NextBitSet]_vars

(***************************************************************************)
(* C16  The bitmap is bound-checked.  For every bitmap b and every index i *)
(* outside [0, b.length), set(i) leaves b as it is and has(i) is false;    *)
(* and has(i) is true exactly for the indices that toArray lists.          *)
(***************************************************************************)
C16_BoundChecked ==
  \A id \in DOMAIN uploads :
    LET b == uploads[id].receivedBitset
    IN  /\ \A i \in BitIndices :
             (i < 0 \/ i >= b.length) => (BitSetSet(b, i) = b /\ ~BitSetHas(b, i))
        /\ \A i \in BitIndices : BitSetHas(b, i) <=> i \in Range(ToArray(b))


(***************************************************************************)
(* C17  Every chunk index that enters the lock set of an upload leaves it  *)
(* again: the writeChunkAt call that put it there returns, whatever its    *)
(* payload stream does, so no index answers 409 for ever.                  *)
(***************************************************************************)
C17_Locked(id, idx) == id \in DOMAIN locks /\ idx \in locks[id]

C17_EveryWriteReturns ==
  \A id \in 1..MaxUploads : \A idx \in 0..2 :
    C17_Locked(id, idx) ~> ~C17_Locked(id, idx)


(***************************************************************************)
(* C18  The bytes of an accepted write stay inside the chunk it marks.     *)
(* The byte range [offset, offset + length) of every writeChunkAt call in  *)
(* flight, and of every range landed in a destination file, lies inside    *)
(* [index * chunkSize, min((index + 1) * chunkSize, totalSize)) for index  *)
(* = floor(offset / chunkSize); and two calls in flight on distinct chunk  *)
(* indices of one upload write no byte in common.                          *)
(***************************************************************************)
C18_InsideChunk(up, offset, length) ==
  LET index == ChunkIndex(offset, up.chunkSize)
  IN  /\ index * up.chunkSize <= offset
      /\ offset + length <= (index + 1) * up.chunkSize
      /\ offset + length <= up.totalSize

C18_Disjoint(v, w) ==
  v.offset + v.length <= w.offset \/ w.offset + w.length <= v.offset

C18_WritesStayInChunk ==
  /\ \A k \in DOMAIN writers :
       writers[k].live =>
         C18_InsideChunk(uploads[writers[k].id], writers[k].offset, writers[k].length)
  /\ \A id \in DOMAIN files : \A r \in files[id].data :
       GetUpload(id) # Null => C18_InsideChunk(GetUpload(id), r[1], r[2])
  /\ \A k, j \in DOMAIN writers :
       (/\ writers[k].live /\ writers[j].live
        /\ writers[k].id = writers[j].id
        /\ writers[k].chunkIndex # writers[j].chunkIndex)
       => C18_Disjoint(writers[k], writers[j])


(***************************************************************************)
(* C19  One flush worker per snapshot.  No two runs of _flushDirty,        *)
(* started by the timer or by flushAllMetadata, have a writeFile of the    *)
(* snapshot of the same upload id in flight at the same time.              *)
(***************************************************************************)
C19_Writing(k, id) == ~flushers[k].landed /\ flushers[k].cur = id

C19_OneFlushWorkerPerId ==
  \A k, j \in DOMAIN flushers : \A id \in issued :
    (C19_Writing(k, id) /\ C19_Writing(j, id)) => k = j


(***************************************************************************)
(* C20  One debounce timer, and never dirty without it.  In every state at *)
(* most one debounce timer is armed, and a timer is armed whenever the     *)
(* dirty set is not empty: also for an id dirtied while a timer is pending *)
(* and for an id dirtied while a run of _flushDirty is writing.            *)
(***************************************************************************)
C20_OneTimerWhenDirty ==
  /\ debounceTimer <= 1
  /\ dirty # << >> => debounceTimer = 1

\* An upload whose snapshot a run of _flushDirty is writing is dirty again,
\* and one timer is armed for it.
C20_Witness ==
  /\ debounceTimer = 1
  /\ \E k \in DOMAIN flushers :
       ~flushers[k].landed /\ flushers[k].cur \in Range(dirty)


(***************************************************************************)
(* C21  Bounded staleness.  With every due timer and I/O callback run, for *)
(* an upload that stays in the registry of a process no snapshot write of  *)
(* which has failed: every chunk index in the descriptor's bitmap, and the *)
(* completed flag once set, is eventually in the snapshot on disk; and     *)
(* from some point on the snapshot on disk equals the descriptor.          *)
(***************************************************************************)
\* The upload is out of the claim's scope: aborted or its process ended (it
\* is not in the registry), or a snapshot write has failed.
C21_Excused(id) == ~Cached(id) \/ snapFailed

C21_ChunkPersisted(id, idx) ==
  HasMeta(id) /\ idx \in Range(metaStore[id].receivedChunks)

C21_InSync(id) == HasMeta(id) /\ metaStore[id] = MetaOf(uploads[id])

C21_BoundedStaleness ==
  \A id \in 1..MaxUploads :
    /\ \A idx \in 0..2 :
         (Cached(id) /\ BitSetHas(uploads[id].receivedBitset, idx))
           ~> (C21_Excused(id) \/ C21_ChunkPersisted(id, idx))
    /\ (Cached(id) /\ uploads[id].completed)
         ~> (C21_Excused(id) \/ (HasMeta(id) /\ metaStore[id].completed))
    /\ <>[](C21_Excused(id) \/ C21_InSync(id))


(***************************************************************************)
(* C22  A rejected write changes nothing.  A PUT answered 409 starts no    *)
(* write and leaves the lock sets, with the index still held by the write  *)
(* in flight, the descriptors and their bitmaps, the destination files,    *)
(* the snapshots and the dirty set as they were.                           *)
(***************************************************************************)
C22_Rejected == PutStep /\ resp'.code = 409

C22_NothingChanges ==
  C22_Rejected
    => /\ writers' = writers
       /\ locks' = locks
       /\ PutIndex \in locks'[resp'.id]
       /\ LiveWriters(resp'.id, PutIndex) # {}
       /\ uploads' = uploads
       /\ files' = files /\ metaStore' = metaStore
       /\ dirty' = dirty /\ debounceTimer' = debounceTimer

C22_ConflictIsNoOp == [][C22_NothingChanges]_vars

\* A PUT was just rejected while the write holding its chunk is in flight.
C22_Witness ==
  /\ resp.op = "put" /\ resp.code = 409
  /\ \E k \in DOMAIN writers :
       /\ writers[k].live /\ writers[k].id = resp.id
       /\ writers[k].chunkIndex = resp.offset \div uploads[resp.id].chunkSize
       /\ writers[k].chunkIndex \in locks[resp.id]


(***************************************************************************)
(* C23  Only a finished write marks a chunk.  While an upload stays in the *)
(* registry its received set never loses an index, and it gains one only   *)
(* in the step in which a writeChunkAt call on that upload ends with       *)
(* success: exactly the chunk index of that call.  A failed, rejected or   *)
(* unfinished write sets no bit.                                           *)
(***************************************************************************)
C23_Received(up) == Range(ToArray(up.receivedBitset))

C23_Step(id) ==
  (Cached(id) /\ id \in DOMAIN uploads')
    => /\ C23_Received(uploads[id]) \subseteq C23_Received(uploads'[id])
       /\ C23_Received(uploads'[id]) # C23_Received(uploads[id])
            => \E k \in DOMAIN writers :
                 /\ DoneStep(k) /\ resp'.code = 200
                 /\ writers[k].id = id /\ writers[k].live
                 /\ C23_Received(uploads'[id])
                      = C23_Received(uploads[id]) \cup { writers[k].chunkIndex }

C23_OnlyFinishedWritesMark == [][\A id \in 1..MaxUploads : C23_Step(id)]_vars

\* A write of upload 1 has just failed and its chunk is not received, after
\* another chunk of the upload was received.
C23_Witness ==
  /\ resp.op = "putDone" /\ resp.code \in {500, 503, 507} /\ resp.id = 1
  /\ Cached(1)
  /\ C23_Received(uploads[1]) # {}
  /\ (resp.offset \div uploads[1].chunkSize) \notin C23_Received(uploads[1])


(***************************************************************************)
(* C24  The snapshot never runs ahead of the registry.  For every upload   *)
(* in the registry that has a snapshot on disk, the indices listed in the  *)
(* snapshot's receivedChunks are all in the descriptor's bitmap.           *)
(***************************************************************************)
C24_PersistedSubsetOfMemory ==
  \A id \in DOMAIN uploads :
    HasMeta(id) =>
      Range(metaStore[id].receivedChunks) \subseteq Range(ToArray(uploads[id].receivedBitset))


(***************************************************************************)
(* C25  Lock sets and dirty set are keyed by registered ids.  In every     *)
(* state the ids that have a lock set are exactly the ids in the registry, *)
(* and every id in the dirty set is in the registry.                       *)
(***************************************************************************)
C25_LocksKeyedByRegistry == DOMAIN locks = DOMAIN uploads

C25_DirtyIsRegistered == Range(dirty) \subseteq DOMAIN uploads

C25_KeyedByRegistry == C25_LocksKeyedByRegistry /\ C25_DirtyIsRegistered


(***************************************************************************)
(* The browser client's uploadWithRetries (upload-client.js 186-202) for   *)
(* one chunk of upload 1, against a server that may give any of the        *)
(* answers of PUT /upload/:id (server.js 189-246) or be unreachable.       *)
(* calls counts the PUT requests sent, which is the client's  attempt      *)
(* after its increment; resp is the outcome of the last one.               *)
(***************************************************************************)
maxRetries == 6

\* What one uploadChunk call can meet: the answers of the PUT handler, and
\* fetch rejecting with a TypeError (no answer, code 0).
PutAnswers ==
  { <<200, "">>, <<400, "invalid_range">>, <<404, "upload_not_found">>,
    <<409, "chunk_write_in_progress">>, <<500, "chunk_upload_failed">>,
    <<503, "transient_write_failure">>, <<507, "disk_full">>, <<0, "TypeError">> }

\* The Content-Range of uploadChunk (205-210) as the server reads it (193-199).
ChunkRange(cfg, chunkIndex) ==
  LET start == chunkIndex * cfg.chunkSize
      endExclusive == IF start + cfg.chunkSize < cfg.totalSize
                      THEN start + cfg.chunkSize ELSE cfg.totalSize
  IN  << start, (endExclusive - 1) - start + 1 >>

\* err.transient as uploadChunk sets it (227-237) and  transient  of line 195.
ErrTransient(r) ==
  \/ r.code = 409
  \/ r.code >= 500 /\ r.code < 600
  \/ r.error = "TypeError"

\* The while loop is at its top with an attempt to make.
Retrying ==
  \/ resp.op = "none"
  \/ resp.code # 200 /\ ErrTransient(resp) /\ calls <= maxRetries

InitClient ==
  /\ \E cfg \in Configs : \E chunkIndex \in 0..(BitsetLength(cfg.totalSize, cfg.chunkSize) - 1) :
       /\ uploads = (1 :> NewUpload(cfg))
       /\ resp = PutReply("none", 1, ChunkRange(cfg, chunkIndex)[1],
                          ChunkRange(cfg, chunkIndex)[2], 0, "")
  /\ locks = (1 :> {})
  /\ dirty = << >>
  /\ debounceTimer = 0
  /\ metaStore = << >>
  /\ files = << >>
  /\ nextId = 1
  /\ issued = {1}
  /\ creators = {}
  /\ writers = << >>
  /\ flushers = << >>
  /\ aborts = {}
  /\ shutdown = Null
  /\ snapFailed = FALSE
  /\ calls = 0

\* One turn of the loop: uploadChunk is called and returns or throws (190-196).
UploadAttempt(answer) ==
  /\ Retrying
  /\ calls' = calls + 1
  /\ resp' = PutReply("put", resp.id, resp.offset, resp.length, answer[1], answer[2])
  /\ UNCHANGED << memory, disk, nextId, issued, inflight >>

NextClient == \E answer \in PutAnswers : UploadAttempt(answer)

SpecClient == InitClient /\ [][NextClient]_vars

(***************************************************************************)
(* C26  The client's retry policy.  uploadWithRetries sends a chunk again  *)
(* only after 409 (Conflict), 503 (Transient) or a request that got no     *)
(* answer; after 507 (storage exhausted), any other fatal answer or 404 it *)
(* sends nothing more; and it sends a chunk at most 7 times.               *)
(***************************************************************************)
C26_AtMostSevenAttempts == calls <= maxRetries + 1

C26_RetriesOnlyWhenAdvised ==
  (calls' = calls + 1 /\ resp.op = "put")
    => (resp.code \in {409, 503} \/ resp.error = "TypeError")

C26_ClientRetryPolicy == []C26_AtMostSevenAttempts /\ [][C26_RetriesOnlyWhenAdvised]_vars

=============================================================================
